---- MODULE Spec2Model ----
(***************************************************************************)
(* Authentication / session core of the contact-book backend:              *)
(* refresh-token store, refresh rotation, logout, revocation ledger and    *)
(* the periodic expiry sweeper; the account requests (registration,        *)
(* confirmation, password reset, avatar) and the per-user contact book.    *)
(*                                                                         *)
(* Time is counted in days.  The clock of the model advances in steps of   *)
(* ClockStep days, so every timestamp is a multiple of ClockStep.          *)
(***************************************************************************)
EXTENDS Integers, FiniteSets, Sequences, TLC

\* ------------------------------------------------------------------ bounds
\* refresh rows (and access tokens) ever issued
MaxTokens == 3
\* days the clock advances per step
ClockStep == 7
\* settings.REFRESH_TOKEN_EXPIRE_DAYS (read from the environment)
REFRESH_TOKEN_EXPIRE_DAYS == 14
\* settings.ACCESS_TOKEN_EXPIRE_MINUTES, in whole days: an access token
\* outlives no step of the clock
ACCESS_TOKEN_EXPIRE == 0

\* ------------------------------------------------------- program constants
\* main.py: cutoff = now - timedelta(days=7)
RetentionDays == 7

\* NULL of a nullable column or field
NULL == -1
\* Python's None for an optional row or object: a set of at most one element
None == {}

\* the refresh requests of a behaviour, in the order they are sent; both may
\* be in flight at once
Clients == {1, 2}
\* concurrent register requests
Registrants == {1, 2}
\* mails the outbox holds
MaxMails == 2
\* contacts ever created
MaxContacts == 2
\* days the contact book is served
BookDays == 7
\* contacts_repo.py: upcoming_birthday_end = today + timedelta(days=7)
UpcomingDays == 7
\* lifetime of an action token, in days
ACTION_TOKEN_EXPIRE == 7
\* the clock stops once a row issued at time 0 can be purged as expired
MaxTime == REFRESH_TOKEN_EXPIRE_DAYS + ClockStep

VARIABLES
    now,             \* wall clock (days)
    users,           \* table users
    refresh_tokens,  \* table refresh_tokens
    next_id,         \* next refresh_tokens.id; also the next fresh secret / jti
    access_tokens,   \* signed access tokens issued so far (claims bundles)
    ledger,          \* revocation ledger: revoked access tokens until expiry
    client,          \* per refresh request: position, locals and response
    scheduler,       \* AsyncIOScheduler: "stopped" | "running"
    last_sweep,      \* latest cleanup run since the clock advanced: its
                     \* outcome "none" | "ok" | "failed", the rows it deleted
    outbox,          \* action tokens mailed by send_email background tasks
    reply,           \* response to the latest account request
    registration,    \* per register request: position and locals
    contacts,        \* table contacts
    next_contact_id, \* next contacts.id
    answer           \* outcome of the latest contact request

\* the contact book
book == <<contacts, next_contact_id, answer>>

\* the state the account requests leave alone
sessions == <<now, refresh_tokens, next_id, access_tokens, ledger, client,
              scheduler, last_sweep, book>>

\* the state only the account requests touch
accounts == <<outbox, reply, registration>>

\* the state the contact requests leave alone
outside_book == <<now, users, refresh_tokens, next_id, access_tokens, ledger,
                  client, scheduler, last_sweep, outbox, reply, registration>>

vars == <<now, users, refresh_tokens, next_id, access_tokens, ledger, client,
          scheduler, last_sweep, outbox, reply, registration, contacts,
          next_contact_id, answer>>

\* ------------------------------------------------------------------ users
\* One registered, confirmed user (the table after her registration).
InitUsers ==
    { [id |-> 1, username |-> "alice", email |-> "alice@x.com",
       hash_password |-> <<"bcrypt", "Secret123">>, confirmed |-> TRUE,
       avatar |-> "gravatar"] }

\* The table after a second registration.
TwoUsers ==
    InitUsers \cup
    { [id |-> 2, username |-> "bob", email |-> "bob@x.com",
       hash_password |-> <<"bcrypt", "Hunter22">>, confirmed |-> TRUE,
       avatar |-> "gravatar"] }

Usernames == {"alice", "bob"}
Passwords == {"Secret123", "Hunter22"}

\* the first row of a result set, or None
First(found) == IF found = {} THEN None ELSE {CHOOSE x \in found : TRUE}

\* UserRepository.get_by_username: scalar_one_or_none
get_by_username(username) ==
    First({u \in users : u.username = username})

\* AuthService._hash_password / _verify_password
hash_password(plain) == <<"bcrypt", plain>>
verify_password(plain, digest) == digest = hash_password(plain)

\* ------------------------------------------------- refresh token store
\* AuthService._hash_token: one-way digest of the raw secret
hash_token(token) == token + MaxTokens + 1

\* get_by_token_hash that filters like get_active_token does
get_by_token_hash_unrevoked(token_hash) ==
    First({t \in refresh_tokens :
             t.token_hash = token_hash /\ t.revoked_at = NULL})

\* RefreshTokenRepository.get_by_token_hash
get_by_token_hash(token_hash) ==
    First({t \in refresh_tokens : t.token_hash = token_hash})

\* get_active_token without the expiry filter
get_active_token_unexpiring(token_hash, current_time) ==
    First({t \in refresh_tokens :
             /\ t.token_hash = token_hash
             /\ t.revoked_at = NULL})

\* get_active_token that still returns a row at the instant it expires
get_active_token_inclusive(token_hash, current_time) ==
    First({t \in refresh_tokens :
             /\ t.token_hash = token_hash
             /\ t.expired_at >= current_time
             /\ t.revoked_at = NULL})

\* get_active_token with the expiry comparison turned round
get_active_token_reversed(token_hash, current_time) ==
    First({t \in refresh_tokens :
             /\ t.token_hash = token_hash
             /\ t.expired_at < current_time
             /\ t.revoked_at = NULL})

\* RefreshTokenRepository.get_active_token
get_active_token(token_hash, current_time) ==
    First({t \in refresh_tokens :
             /\ t.token_hash = token_hash
             /\ t.expired_at > current_time
             /\ t.revoked_at = NULL})

\* save_token that adds no row
save_token_unsaved(user_id, token_hash, expired_at) == refresh_tokens

\* save_token that persists the raw secret it was issued for
save_token_raw_secret(user_id, token_hash, expired_at) ==
    refresh_tokens \cup
        { [id |-> next_id, user_id |-> user_id, token_hash |-> next_id,
           created_at |-> now, expired_at |-> expired_at,
           revoked_at |-> NULL] }

\* RefreshTokenRepository.save_token: the table with the new row added
save_token(user_id, token_hash, expired_at) ==
    refresh_tokens \cup
        { [id |-> next_id, user_id |-> user_id, token_hash |-> token_hash,
           created_at |-> now, expired_at |-> expired_at,
           revoked_at |-> NULL] }

\* revoke_token that commits without setting the timestamp
revoke_token_unset(refresh_token) == refresh_token

\* revoke_token that also cuts the row's expiry short
revoke_token_expiring(refresh_token) ==
    [refresh_token EXCEPT !.revoked_at = now, !.expired_at = now]

\* RefreshTokenRepository.revoke_token: the row after the update
revoke_token(refresh_token) == [refresh_token EXCEPT !.revoked_at = now]

\* ------------------------------------------------------------ token codec
\* AuthService.create_access_token: the claims bundle that is signed
create_access_token(username) ==
    [sub |-> username, jti |-> next_id, exp |-> now + ACCESS_TOKEN_EXPIRE]

\* Token Codec decode: the claims of the presented token string; None when
\* it is malformed or wrongly signed (only issued tokens verify) or expired
decode(token) ==
    {a \in access_tokens : a.jti = token /\ a.exp >= now}

\* Revocation Ledger is_revoked
is_revoked(jti) == \E e \in ledger : e.jti = jti /\ e.expires_at >= now

\* ------------------------------------------------------- auth orchestrator
\* AuthService.authenticate: "ok" or the error it raises
authenticate_status(username, password) ==
    LET verified == {user \in get_by_username(username) :
                       verify_password(password, user.hash_password)}
    IN  IF verified = None THEN "Unauthorized"
        ELSE IF \E user \in verified : ~ user.confirmed THEN "Forbidden"
        ELSE "ok"

\* AuthService.authenticate: the user; None stands for the error raised
authenticate(username, password) ==
    {user \in get_by_username(username) :
        authenticate_status(username, password) = "ok"}

\* a row is active iff revoked_at IS NULL AND expired_at > now
IsActive(t, current_time) ==
    t.revoked_at = NULL /\ t.expired_at > current_time

\* Reuse detection of AuthService.validate_refresh_token: a presented secret
\* whose row is already revoked revokes every other active row of its user.
reuse_detection(token_hash) ==
    LET reused == {s \in get_by_token_hash(token_hash) : s.revoked_at # NULL}
    IN  { IF /\ \E s \in reused : t.user_id = s.user_id /\ t.id # s.id
             /\ IsActive(t, now)
          THEN revoke_token(t) ELSE t : t \in refresh_tokens }

\* AuthService.revoke_refresh_token: look the row up by hash and revoke it
\* only if it is not revoked yet; a missing row is not an error.
revoke_refresh_token(token) ==
    LET stored == {s \in get_by_token_hash(hash_token(token)) :
                     s.revoked_at = NULL}
    IN  (refresh_tokens \ stored) \cup {revoke_token(s) : s \in stored}

\* AuthService.validate_refresh_token: the owner of the active row the
\* presented secret resolves to; None stands for Unauthorized
validate_refresh_token(token) ==
    {u \in users :
        \E t \in get_active_token(hash_token(token), now) : u.id = t.user_id}

\* AuthService.revoke_access_token: the ledger with the token's jti added,
\* kept until the token's own expiry
revoke_access_token(token) ==
    ledger \cup {[jti |-> a.jti, expires_at |-> a.exp] : a \in decode(token)}

\* AuthService.get_current_user (GET /users/me): the token decodes, its jti is
\* not in the ledger, and its subject is a user; None stands for Unauthorized
get_current_user(token) ==
    {u \in users : \E a \in decode(token) :
                      ~ is_revoked(a.jti) /\ u.username = a.sub}

\* ---------------------------------------------------------------- accounts
Emails == {"alice@x.com", "bob@x.com"}

\* UserRepository.get_user_by_email
get_user_by_email(email) == First({u \in users : u.email = email})

\* a users table without UNIQUE constraints
unique_violation_never(username, email) == FALSE

\* users.username and users.email are UNIQUE: the insert of such a row fails
unique_violation(username, email) ==
    \E u \in users : u.username = username \/ u.email = email

\* UserRepository.create_user: the table after the insert; the column
\* confirmed takes its default
create_user(username, email, hashed_password, avatar) ==
    users \cup {[id |-> Cardinality(users) + 1, username |-> username,
                 email |-> email, hash_password |-> hashed_password,
                 confirmed |-> FALSE, avatar |-> avatar]}

\* UserRepository.update_avatar_url: the table after the commit
update_avatar_url(email, url) ==
    {IF u \in get_user_by_email(email) THEN [u EXCEPT !.avatar = url]
                                       ELSE u : u \in users}

\* confirmed_email that never reaches the table
UserRepository_confirmed_email_unsaved(email) == users

\* UserRepository.confirmed_email: the table after the commit
UserRepository_confirmed_email(email) ==
    {IF u \in get_user_by_email(email) THEN [u EXCEPT !.confirmed = TRUE]
                                       ELSE u : u \in users}

\* update_password that asks the user to confirm the email again
update_password_unconfirming(user, new_hashed_password) ==
    (users \ {user}) \cup
        {[user EXCEPT !.hash_password = new_hashed_password,
                      !.confirmed = FALSE]}

\* update_password that never reaches the table
update_password_unsaved(user, new_hashed_password) == users

\* UserRepository.update_password: the table after the commit
update_password(user, new_hashed_password) ==
    (users \ {user}) \cup {[user EXCEPT !.hash_password = new_hashed_password]}

\* a string that is no signed action token
NoToken == [purpose |-> "none", sub |-> "nobody", exp |-> 0]

\* Token Codec issue_action: subject, purpose tag, expiry
issue_action(subject_email, purpose) ==
    [purpose |-> purpose, sub |-> subject_email,
     exp |-> now + ACTION_TOKEN_EXPIRE]

\* Token Codec decode_action: "ok" (the subject is token.sub) or the failure
decode_action(token, expected_purpose) ==
    IF token = NoToken THEN "InvalidToken"
    ELSE IF token.exp < now THEN "Expired"
    ELSE IF token.purpose # expected_purpose THEN "WrongPurpose"
    ELSE "ok"

\* AuthService.create_reset_token / decode_reset_token
create_reset_token(email) == issue_action(email, "reset")
decode_reset_token(token) == decode_action(token, "reset")

\* utils.email_token: the confirmation token of send_email, and its decoder
create_email_token(email) == issue_action(email, "confirm")
get_email_from_token(token) == decode_action(token, "confirm")

\* services.email.send_email, run as a background task: the mail carries a
\* link with the action token
send_email(token) == outbox \cup {token}

\* the action tokens a request can present: those mailed, and NoToken
ActionTokens == outbox \cup {NoToken}

\* mails still to be sent by register handlers that passed their check
Registering ==
    Cardinality({r \in Registrants : registration[r].pc = "checked"})
CanMail == Cardinality(outbox) + Registering < MaxMails

NoRegistration ==
    [pc |-> "idle", username |-> "", email |-> "", password |-> ""]

\* the response of an account request: the operation, its outcome ("ok" or
\* the error), the message of the body, the action token it was given
Reply(op, status, message, token) ==
    [op |-> op, status |-> status, message |-> message, token |-> token]
NoReply == Reply("none", "none", "", NoToken)

\* ---------------------------------------------------------------- contacts
\* days per month of a common year
MonthDays == <<31, 28, 31, 30, 31, 30, 31, 31, 30, 31, 30, 31>>

\* the calendar date at which the clock reads 0
Epoch == [month |-> 12, day |-> 18]

\* date + timedelta(days=1), the year left out
next_day(date) ==
    IF date.day < MonthDays[date.month]
    THEN [date EXCEPT !.day = date.day + 1]
    ELSE [month |-> IF date.month = 12 THEN 1 ELSE date.month + 1, day |-> 1]

\* date + timedelta(days=n)
RECURSIVE add_days(_, _)
add_days(date, n) == IF n = 0 THEN date ELSE add_days(next_day(date), n - 1)

\* datetime.now() as a calendar date
today == add_days(Epoch, now)

\* the columns of a contact a request body carries
Fields == {"first_name", "email", "birth_date"}
FirstNames == {"Ann", "Jo"}
ContactEmails == {"ann@x.com", "jo@x.com"}
Birthdays == {[month |-> 12, day |-> 20], [month |-> 12, day |-> 27]}

\* ContactSchema: the body of a create request
ContactSchema == [first_name : FirstNames, email : ContactEmails,
                  birth_date : Birthdays]

\* the values an update request writes
UpdateValues ==
    {[first_name |-> "Ann", email |-> "ann@x.com",
      birth_date |-> [month |-> 12, day |-> 20]],
     [first_name |-> "Jo", email |-> "jo@x.com",
      birth_date |-> [month |-> 12, day |-> 27]]}

\* ContactUpdateSchema after model_dump(exclude_unset=True): the fields the
\* client set, with their values
ContactUpdateSchema ==
    {[k \in set |-> full[k]] : full \in UpdateValues, set \in SUBSET Fields}

\* the letters of the strings of the model, lower-cased
Letters(string) ==
    CASE string = "Ann" -> <<"a", "n", "n">>
      [] string = "Jo" -> <<"j", "o">>
      [] string = "ann@x.com" ->
            <<"a", "n", "n", "@", "x", ".", "c", "o", "m">>
      [] string = "jo@x.com" -> <<"j", "o", "@", "x", ".", "c", "o", "m">>
      [] string = "an" -> <<"a", "n">>
      [] string = "JO" -> <<"j", "o">>
      [] string = "x.com" -> <<"x", ".", "c", "o", "m">>
      [] string = "" -> <<>>

\* the search strings of a list request; "" stands for a filter not given
Patterns == {"", "an", "JO", "x.com"}

\* column.ilike(f"%{pattern}%"): case-insensitive substring match
ilike(value, pattern) ==
    LET v == Letters(value)
        p == Letters(pattern)
    IN  \E i \in 1..(Len(v) + 1) :
           /\ i + Len(p) - 1 <= Len(v)
           /\ SubSeq(v, i, i + Len(p) - 1) = p

\* ContactRepository.get_contacts; `user` is an optional row, and the page
\* (limit, offset) is wide enough for the whole result
get_contacts(user, first_name, email) ==
    {c \in contacts :
        /\ first_name # "" => ilike(c.first_name, first_name)
        /\ email # "" => ilike(c.email, email)
        /\ user # None => \E u \in user : c.user_id = u.id}

\* ContactRepository.get_contacts_by_upcoming_birthdays, the page wide enough
\* for the whole result
get_contacts_by_upcoming_birthdays(user) ==
    LET current_month == today.month
        current_day == today.day
        upcoming_birthday_end == add_days(today, UpcomingDays)
    IN  {c \in contacts :
            /\ c.birth_date.month = current_month
            /\ c.birth_date.day >= current_day
            /\ c.birth_date.day <= upcoming_birthday_end.day
            /\ c.user_id = user.id}

\* get_contact_by_id that filters on the id alone
get_contact_by_id_any_owner(contact_id, user) ==
    First({c \in contacts : c.id = contact_id})

\* ContactRepository.get_contact_by_id: scalar_one_or_none
get_contact_by_id(contact_id, user) ==
    First({c \in contacts : c.id = contact_id /\ c.user_id = user.id})

\* contacts.email is UNIQUE: a write that gives `email` to a second row fails
email_taken(email, contact_id) ==
    \E c \in contacts : c.email = email /\ c.id # contact_id

\* setattr for every column of the schema, a first_name the client did not
\* set being written with a default
setattrs_defaulting(contact, update_data) ==
    [id |-> contact.id, user_id |-> contact.user_id,
     first_name |-> IF "first_name" \in DOMAIN update_data
                    THEN update_data["first_name"] ELSE "Ann",
     email |-> IF "email" \in DOMAIN update_data
               THEN update_data["email"] ELSE contact.email,
     birth_date |-> IF "birth_date" \in DOMAIN update_data
                    THEN update_data["birth_date"] ELSE contact.birth_date,
     updated_at |-> contact.updated_at]

\* the row after setattr(contact, key, value) for every key of the body
setattrs(contact, update_data) ==
    [column \in DOMAIN contact |->
        IF column \in DOMAIN update_data THEN update_data[column]
                                         ELSE contact[column]]

\* the row the flush writes: an UPDATE is emitted only when a column
\* changed, and then updated_at takes its onupdate value
flushed(contact, changed) ==
    IF changed = contact THEN contact
    ELSE [changed EXCEPT !.updated_at = now]

\* the outcome of a contact request: the operation, the caller, the id in
\* the path (of the new row for a create), and "ok", "None" for a None
\* result or the error raised
Answer(op, user, contact_id, status) ==
    [op |-> op, user_id |-> user.id, contact_id |-> contact_id,
     status |-> status]
NoAnswer == [op |-> "none", user_id |-> NULL, contact_id |-> NULL,
             status |-> "none"]

\* ------------------------------------------------------------- requests
\* refresh secrets a request can present: those issued so far, and 0 for a
\* string that was never issued
Secrets == 0..(next_id - 1)
\* access tokens a request can present: those issued and still unexpired,
\* and 0 for every string that does not decode
AccessStrings == {0} \cup {a.jti : a \in access_tokens}
\* refresh secrets a logout request can present with access token `token`:
\* the handler raises before it reads the secret when the token is rejected
LogoutSecrets(token) == IF token = 0 THEN {0} ELSE Secrets

\* a refresh request not sent yet
Idle ==
    [pc |-> "idle", secret |-> NULL, user_id |-> NULL, status |-> 0,
     new_refresh |-> NULL]

\* a refresh request answered: the presented secret, the status code and the
\* refresh secret of the TokenResponse (its access token has the same number)
Response(secret, status, new_refresh) ==
    [pc |-> "done", secret |-> secret, user_id |-> NULL, status |-> status,
     new_refresh |-> new_refresh]

\* rows still to be written by refresh handlers that passed validation
Pending == Cardinality({c \in Clients : client[c].pc = "validated"})
CanIssue == next_id + Pending <= MaxTokens

NoSweep == [status |-> "none", deleted |-> {}]

InitWith(registered) ==
    /\ now = 0
    /\ users = registered
    /\ refresh_tokens = {}
    /\ next_id = 1
    /\ access_tokens = {}
    /\ ledger = {}
    /\ client = [c \in Clients |-> Idle]
    /\ scheduler = "stopped"
    /\ last_sweep = NoSweep
    /\ outbox = {}
    /\ reply = NoReply
    /\ registration = [r \in Registrants |-> NoRegistration]
    /\ contacts = {}
    /\ next_contact_id = 1
    /\ answer = NoAnswer

Init == InitWith(InitUsers)

\* main.py lifespan: add the cleanup job, start the scheduler, serve
Startup ==
    /\ scheduler = "stopped"
    /\ scheduler' = "running"
    /\ UNCHANGED <<now, users, refresh_tokens, next_id, access_tokens,
                   ledger, client, last_sweep>>
    /\ UNCHANGED <<accounts, book>>

\* time passes; ledger entries expire with their token (cache TTL), and an
\* expired access token is as good as one never issued: decode rejects both
Tick ==
    /\ scheduler = "running"
    /\ now + ClockStep <= MaxTime
    /\ now' = now + ClockStep
    /\ ledger' = {e \in ledger : e.expires_at >= now'}
    /\ last_sweep' = NoSweep
    /\ access_tokens' = {a \in access_tokens : a.exp >= now'}
    /\ UNCHANGED <<users, refresh_tokens, next_id, client, scheduler>>
    /\ UNCHANGED <<accounts, book>>

\* a login that lets every user with a verifying password in
login_unconfirmed_too(username, password) ==
    /\ scheduler = "running"
    /\ CanIssue
    /\ LET found == {user \in get_by_username(username) :
                       verify_password(password, user.hash_password)}
           user == CHOOSE u \in found : TRUE
       IN  IF found = None
           THEN UNCHANGED <<refresh_tokens, next_id, access_tokens>>
           ELSE /\ access_tokens' =
                      access_tokens \cup {create_access_token(user.username)}
                /\ refresh_tokens' =
                      save_token(user.id, hash_token(next_id),
                                 now + REFRESH_TOKEN_EXPIRE_DAYS)
                /\ next_id' = next_id + 1
    /\ UNCHANGED <<now, users, ledger, client, scheduler, last_sweep>>
    /\ UNCHANGED <<accounts, book>>

\* POST /auth/login
login(username, password) ==
    /\ scheduler = "running"
    /\ CanIssue
    /\ LET found == authenticate(username, password)
           user == CHOOSE u \in found : TRUE
       IN  IF found = None
           THEN UNCHANGED <<refresh_tokens, next_id, access_tokens>>
           ELSE /\ access_tokens' =
                      access_tokens \cup {create_access_token(user.username)}
                /\ refresh_tokens' =
                      save_token(user.id, hash_token(next_id),
                                 now + REFRESH_TOKEN_EXPIRE_DAYS)
                /\ next_id' = next_id + 1
    /\ UNCHANGED <<now, users, ledger, client, scheduler, last_sweep>>
    /\ UNCHANGED <<accounts, book>>

\* POST /auth/refresh, up to the return of validate_refresh_token
refresh_validate(c, secret) ==
    /\ scheduler = "running"
    /\ client[c].pc = "idle"
    /\ \A d \in Clients : d < c => client[d].pc # "idle"
    /\ LET found == validate_refresh_token(secret)
           user == CHOOSE u \in found : TRUE
       IN  IF found = None
           THEN /\ refresh_tokens' = reuse_detection(hash_token(secret))
                /\ client' = [client EXCEPT ![c] =
                      Response(secret, 401, NULL)]
           ELSE /\ CanIssue
                /\ client' = [client EXCEPT ![c] =
                      [Idle EXCEPT !.pc = "validated", !.secret = secret,
                                   !.user_id = user.id]]
                /\ UNCHANGED refresh_tokens
    /\ UNCHANGED <<now, users, next_id, access_tokens, ledger, scheduler,
                   last_sweep>>
    /\ UNCHANGED <<accounts, book>>

\* a refresh handler that revokes the presented row in the step that creates
\* its replacement
refresh_issue_revoking(c) ==
    /\ client[c].pc = "validated"
    /\ LET user == CHOOSE u \in users : u.id = client[c].user_id
           stored == {s \in get_by_token_hash(hash_token(client[c].secret)) :
                        s.revoked_at = NULL}
       IN  /\ access_tokens' =
                 access_tokens \cup {create_access_token(user.username)}
           /\ refresh_tokens' =
                 (save_token(user.id, hash_token(next_id),
                             now + REFRESH_TOKEN_EXPIRE_DAYS) \ stored)
                 \cup {revoke_token(s) : s \in stored}
    /\ next_id' = next_id + 1
    /\ client' = [client EXCEPT ![c].pc = "issued",
                                ![c].new_refresh = next_id]
    /\ UNCHANGED <<now, users, ledger, scheduler, last_sweep>>
    /\ UNCHANGED <<accounts, book>>

\* POST /auth/refresh: create_access_token, create_refresh_token
refresh_issue(c) ==
    /\ client[c].pc = "validated"
    /\ LET user == CHOOSE u \in users : u.id = client[c].user_id
       IN  /\ access_tokens' =
                 access_tokens \cup {create_access_token(user.username)}
           /\ refresh_tokens' =
                 save_token(user.id, hash_token(next_id),
                            now + REFRESH_TOKEN_EXPIRE_DAYS)
    /\ next_id' = next_id + 1
    /\ client' = [client EXCEPT ![c].pc = "issued",
                                ![c].new_refresh = next_id]
    /\ UNCHANGED <<now, users, ledger, scheduler, last_sweep>>
    /\ UNCHANGED <<accounts, book>>

\* POST /auth/refresh: revoke_refresh_token, return TokenResponse
refresh_revoke(c) ==
    /\ client[c].pc = "issued"
    /\ refresh_tokens' = revoke_refresh_token(client[c].secret)
    /\ client' = [client EXCEPT ![c] =
          Response(client[c].secret, 200, client[c].new_refresh)]
    /\ UNCHANGED <<now, users, next_id, access_tokens, ledger, scheduler,
                   last_sweep>>
    /\ UNCHANGED <<accounts, book>>

\* a logout that revokes the refresh row only
logout_refresh_only(token, secret) ==
    /\ scheduler = "running"
    /\ IF decode(token) = None
       THEN UNCHANGED refresh_tokens
       ELSE refresh_tokens' = revoke_refresh_token(secret)
    /\ UNCHANGED <<now, users, next_id, access_tokens, ledger, client,
                   scheduler, last_sweep>>
    /\ UNCHANGED <<accounts, book>>

\* a logout that revokes the access token only
logout_access_only(token, secret) ==
    /\ scheduler = "running"
    /\ IF decode(token) = None
       THEN UNCHANGED ledger
       ELSE ledger' = revoke_access_token(token)
    /\ UNCHANGED <<now, users, refresh_tokens, next_id, access_tokens, client,
                   scheduler, last_sweep>>
    /\ UNCHANGED <<accounts, book>>

\* POST /auth/logout
logout(token, secret) ==
    /\ scheduler = "running"
    /\ IF decode(token) = None
       THEN UNCHANGED <<ledger, refresh_tokens>>
       ELSE /\ ledger' = revoke_access_token(token)
            /\ refresh_tokens' = revoke_refresh_token(secret)
    /\ UNCHANGED <<now, users, next_id, access_tokens, client, scheduler,
                   last_sweep>>
    /\ UNCHANGED <<accounts, book>>

\* ---------------------------------------------------------- expiry sweeper
\* a WHERE clause that forgets the cutoff of revoked rows
Stale_any_revoked(t, current_time, cutoff) ==
    \/ t.expired_at < current_time
    \/ t.revoked_at # NULL

\* a WHERE clause that grants expired rows the retention window too
Stale_after_grace(t, current_time, cutoff) ==
    \/ t.expired_at < cutoff
    \/ t.revoked_at # NULL /\ t.revoked_at < cutoff

\* WHERE expired_at < :now OR revoked_at IS NOT NULL AND revoked_at < :cutoff
Stale(t, current_time, cutoff) ==
    \/ t.expired_at < current_time
    \/ t.revoked_at # NULL /\ t.revoked_at < cutoff

\* a scheduler that a raising job run shuts down
after_job_error_shutdown == "stopped"

\* the scheduler after a job run raised: the executor logs the error and the
\* interval job stays scheduled
after_job_error == scheduler

\* cleanup_expired_tokens, run by the scheduler's interval job
cleanup_expired_tokens ==
    /\ scheduler = "running"
    /\ LET cutoff == now - RetentionDays
           deleted == {t \in refresh_tokens : Stale(t, now, cutoff)}
       IN  /\ refresh_tokens' = refresh_tokens \ deleted
           /\ last_sweep' = [status |-> "ok", deleted |-> deleted]
    /\ UNCHANGED <<now, users, next_id, access_tokens, ledger, client,
                   scheduler>>
    /\ UNCHANGED <<accounts, book>>

\* cleanup_expired_tokens when execute or commit raises: nothing is committed
cleanup_raises ==
    /\ scheduler = "running"
    /\ scheduler' = after_job_error
    /\ last_sweep' = [status |-> "failed", deleted |-> {}]
    /\ UNCHANGED <<now, users, refresh_tokens, next_id, access_tokens,
                   ledger, client>>
    /\ UNCHANGED <<accounts, book>>

\* ------------------------------------------------------ account requests
\* POST /auth/register, AuthService.register_user up to its lookups: Conflict
\* when the username or the email is taken
register_check(r, username, email, password) ==
    /\ scheduler = "running"
    /\ registration[r].pc = "idle"
    /\ \A d \in Registrants : d < r => registration[d].pc # "idle"
    /\ IF get_by_username(username) # None \/ get_user_by_email(email) # None
       THEN /\ reply' = Reply("register", "Conflict", "", NoToken)
            /\ UNCHANGED registration
       ELSE /\ CanMail
            /\ registration' = [registration EXCEPT ![r] =
                  [pc |-> "checked", username |-> username, email |-> email,
                   password |-> password]]
            /\ UNCHANGED reply
    /\ UNCHANGED <<users, outbox, sessions>>

\* POST /auth/register: create_user, then the confirmation mail is scheduled
register_create(r) ==
    /\ registration[r].pc = "checked"
    /\ LET data == registration[r]
       IN  IF unique_violation(data.username, data.email)
           THEN /\ reply' = Reply("register", "Conflict", "", NoToken)
                /\ UNCHANGED <<users, outbox>>
           ELSE /\ users' = create_user(data.username, data.email,
                                        hash_password(data.password),
                                        "gravatar")
                /\ outbox' = send_email(create_email_token(data.email))
                /\ reply' = Reply("register", "ok", "", NoToken)
    /\ registration' = [registration EXCEPT ![r] = NoRegistration]
    /\ UNCHANGED sessions

\* GET /users/confirmed_email/{token}
confirmed_email(token) ==
    /\ scheduler = "running"
    /\ LET decoded == get_email_from_token(token)
           user == get_user_by_email(token.sub)
       IN  IF decoded # "ok"
           THEN /\ reply' = Reply("confirmed_email", decoded, "", token)
                /\ UNCHANGED users
           ELSE IF user = None
           THEN /\ reply' = Reply("confirmed_email", "BadRequest",
                                  "Verification error", token)
                /\ UNCHANGED users
           ELSE IF \E u \in user : u.confirmed
           THEN /\ reply' = Reply("confirmed_email", "ok",
                                  "Your email already confirmed", token)
                /\ UNCHANGED users
           ELSE /\ users' = UserRepository_confirmed_email(token.sub)
                /\ reply' = Reply("confirmed_email", "ok",
                                  "Your email successfully confirmed", token)
    /\ UNCHANGED <<outbox, registration, sessions>>

\* POST /users/request_email: user.confirmed is read before user is tested,
\* so the handler raises AttributeError when no user has the email
request_email(email) ==
    /\ scheduler = "running"
    /\ LET user == get_user_by_email(email)
       IN  IF user = None
           THEN /\ reply' = Reply("request_email", "Internal", "", NoToken)
                /\ UNCHANGED outbox
           ELSE IF \E u \in user : u.confirmed
           THEN /\ reply' = Reply("request_email", "ok",
                                  "Your email already confirmed", NoToken)
                /\ UNCHANGED outbox
           ELSE /\ CanMail \/ create_email_token(email) \in outbox
                /\ outbox' = send_email(create_email_token(email))
                /\ reply' = Reply("request_email", "ok", "Check your email",
                                  NoToken)
    /\ UNCHANGED <<users, registration, sessions>>

\* POST /auth/request-password-reset
request_password_reset(email) ==
    /\ scheduler = "running"
    /\ LET user == get_user_by_email(email)
       IN  IF user = None
           THEN /\ reply' = Reply("request_password_reset", "NotFound",
                                  "User not found", NoToken)
                /\ UNCHANGED outbox
           ELSE /\ CanMail \/ create_reset_token(email) \in outbox
                /\ outbox' = send_email(create_reset_token(email))
                /\ reply' = Reply("request_password_reset", "ok",
                         "Password reset instructions sent to your email",
                         NoToken)
    /\ UNCHANGED <<users, registration, sessions>>

\* a reset-password that accepts an action token of any purpose
reset_password_any_purpose(token, new_password) ==
    /\ scheduler = "running"
    /\ LET decoded == decode_action(token, token.purpose)
           user == get_user_by_email(token.sub)
       IN  IF decoded # "ok"
           THEN /\ reply' = Reply("reset_password", decoded, "", token)
                /\ UNCHANGED users
           ELSE IF user = None
           THEN /\ reply' = Reply("reset_password", "NotFound",
                                  "User not found", token)
                /\ UNCHANGED users
           ELSE /\ users' = update_password(CHOOSE u \in user : TRUE,
                                            hash_password(new_password))
                /\ reply' = Reply("reset_password", "ok",
                         "Password has been successfully reset", token)
    /\ UNCHANGED <<outbox, registration, sessions>>

\* a reset-password that also revokes the refresh rows of the user
reset_password_revoking(token, new_password) ==
    /\ scheduler = "running"
    /\ LET decoded == decode_reset_token(token)
           user == get_user_by_email(token.sub)
       IN  IF decoded # "ok"
           THEN /\ reply' = Reply("reset_password", decoded, "", token)
                /\ UNCHANGED <<users, refresh_tokens>>
           ELSE IF user = None
           THEN /\ reply' = Reply("reset_password", "NotFound",
                                  "User not found", token)
                /\ UNCHANGED <<users, refresh_tokens>>
           ELSE /\ users' = update_password(CHOOSE u \in user : TRUE,
                                            hash_password(new_password))
                /\ refresh_tokens' =
                      { IF (\E u \in user : t.user_id = u.id)
                           /\ t.revoked_at = NULL
                        THEN revoke_token(t) ELSE t : t \in refresh_tokens }
                /\ reply' = Reply("reset_password", "ok",
                         "Password has been successfully reset", token)
    /\ UNCHANGED <<outbox, registration, now, next_id, access_tokens, ledger,
                   client, scheduler, last_sweep, book>>

\* POST /auth/reset-password
reset_password(token, new_password) ==
    /\ scheduler = "running"
    /\ LET decoded == decode_reset_token(token)
           user == get_user_by_email(token.sub)
       IN  IF decoded # "ok"
           THEN /\ reply' = Reply("reset_password", decoded, "", token)
                /\ UNCHANGED users
           ELSE IF user = None
           THEN /\ reply' = Reply("reset_password", "NotFound",
                                  "User not found", token)
                /\ UNCHANGED users
           ELSE /\ users' = update_password(CHOOSE u \in user : TRUE,
                                            hash_password(new_password))
                /\ reply' = Reply("reset_password", "ok",
                         "Password has been successfully reset", token)
    /\ UNCHANGED <<outbox, registration, sessions>>

\* PATCH /users/avatar by the signed-in user `user`, uploading a file that
\* the storage service answers with `avatar_url`
update_avatar_user(user, avatar_url) ==
    /\ scheduler = "running"
    /\ user \in users
    /\ users' = update_avatar_url(user.email, avatar_url)
    /\ reply' = Reply("update_avatar_user", "ok", "", NoToken)
    /\ UNCHANGED <<outbox, registration, sessions>>

\* ------------------------------------------------------ contact requests
\* ContactService.create_contact for the signed-in user
create_contact(body, user) ==
    /\ scheduler = "running"
    /\ next_contact_id <= MaxContacts
    /\ IF email_taken(body.email, next_contact_id)
       THEN /\ answer' = Answer("create_contact", user, next_contact_id,
                                "IntegrityError")
            /\ UNCHANGED <<contacts, next_contact_id>>
       ELSE /\ contacts' = contacts \cup
                  {[id |-> next_contact_id, user_id |-> user.id,
                    first_name |-> body.first_name, email |-> body.email,
                    birth_date |-> body.birth_date, updated_at |-> now]}
            /\ next_contact_id' = next_contact_id + 1
            /\ answer' = Answer("create_contact", user, next_contact_id, "ok")
    /\ UNCHANGED outside_book

\* ContactService.get_contact
get_contact(contact_id, user) ==
    /\ scheduler = "running"
    /\ answer' = Answer("get_contact", user, contact_id,
                        IF get_contact_by_id(contact_id, user) = None
                        THEN "None" ELSE "ok")
    /\ UNCHANGED <<contacts, next_contact_id>>
    /\ UNCHANGED outside_book

\* ContactService.remove_contact
remove_contact(contact_id, user) ==
    /\ scheduler = "running"
    /\ LET contact == get_contact_by_id(contact_id, user)
       IN  IF contact # None
           THEN /\ contacts' = contacts \ contact
                /\ answer' = Answer("remove_contact", user, contact_id, "ok")
           ELSE /\ UNCHANGED contacts
                /\ answer' = Answer("remove_contact", user, contact_id,
                                    "None")
    /\ UNCHANGED next_contact_id
    /\ UNCHANGED outside_book

\* ContactService.update_contact
update_contact(contact_id, body, user) ==
    /\ scheduler = "running"
    /\ LET contact == get_contact_by_id(contact_id, user)
           changed == {setattrs(c, body) : c \in contact}
       IN  IF contact = None
           THEN /\ UNCHANGED contacts
                /\ answer' = Answer("update_contact", user, contact_id,
                                    "None")
           ELSE IF \E c \in changed : email_taken(c.email, contact_id)
           THEN /\ UNCHANGED contacts
                /\ answer' = Answer("update_contact", user, contact_id,
                                    "IntegrityError")
           ELSE /\ contacts' = (contacts \ contact) \cup
                      {flushed(c, setattrs(c, body)) : c \in contact}
                /\ answer' = Answer("update_contact", user, contact_id, "ok")
    /\ UNCHANGED next_contact_id
    /\ UNCHANGED outside_book

Next ==
    \/ Startup
    \/ Tick
    \/ \E u \in Usernames, p \in Passwords : login(u, p)
    \/ \E c \in Clients, s \in Secrets : refresh_validate(c, s)
    \/ \E c \in Clients : refresh_issue(c)
    \/ \E c \in Clients : refresh_revoke(c)
    \/ \E a \in AccessStrings : \E s \in LogoutSecrets(a) : logout(a, s)
    \/ cleanup_expired_tokens

Spec == Init /\ [][Next]_vars

\* the same system serving two registered users
SpecTwoUsers == InitWith(TwoUsers) /\ [][Next]_vars

\* the account requests
AccountsNext ==
    \/ Startup
    \/ Tick
    \/ \E r \in Registrants, u \in Usernames, e \in Emails, p \in Passwords :
          register_check(r, u, e, p)
    \/ \E r \in Registrants : register_create(r)
    \/ \E t \in ActionTokens : confirmed_email(t)
    \/ \E e \in Emails : request_email(e)
    \/ \E e \in Emails : request_password_reset(e)
    \/ \E t \in ActionTokens, p \in Passwords : reset_password(t, p)

SpecAccounts == Init /\ [][AccountsNext]_vars

\* registration, confirmation and password reset together with login
OnboardingNext ==
    \/ AccountsNext
    \/ \E u \in Usernames, p \in Passwords : login(u, p)

SpecOnboarding == Init /\ [][OnboardingNext]_vars

\* the urls the storage service returns for an upload
AvatarUrls == {"cloudinary"}

\* the account requests together with the avatar upload
ProfileNext ==
    \/ AccountsNext
    \/ \E u \in users, a \in AvatarUrls : update_avatar_user(u, a)

SpecProfiles == Init /\ [][ProfileNext]_vars

\* the ids a contact request can name: those given out, and the next one
ContactIds == 1..next_contact_id

\* the contact book served to two registered users for BookDays days
ContactsNext ==
    \/ Startup
    \/ now + ClockStep <= BookDays /\ Tick
    \/ \E b \in ContactSchema, u \in users : create_contact(b, u)
    \/ \E i \in ContactIds, u \in users : get_contact(i, u)
    \/ \E i \in ContactIds, b \in ContactUpdateSchema, u \in users :
          update_contact(i, b, u)
    \/ \E i \in ContactIds, u \in users : remove_contact(i, u)

SpecContacts == InitWith(TwoUsers) /\ [][ContactsNext]_vars

\* the same system when a cleanup run may raise
NextWithFaults == Next \/ cleanup_raises

SpecSweeperFails == Init /\ [][NextWithFaults]_vars

\* ================================================================= claims
RowsOf(secret) == {t \in refresh_tokens : t.token_hash = hash_token(secret)}
Succeeded(c) == client[c].pc = "done" /\ client[c].status = 200
Unauthorized(c) == client[c].pc = "done" /\ client[c].status = 401

\* C1: two refresh requests that present the same refresh secret never both
\* succeed: at most one gets a new token pair, the other gets Unauthorized.
C1_RotationIsSingleUse ==
    \A c, d \in Clients :
        (c # d /\ client[c].secret = client[d].secret)
            => ~(Succeeded(c) /\ Succeeded(d))

\* C2: once a refresh request has succeeded it holds a new refresh secret
\* (and access token) that was issued, every row of the presented secret has
\* revoked_at set, and get_active_token on the presented secret finds none.
C2_RefreshRotates ==
    \A c \in Clients :
        Succeeded(c) =>
            /\ client[c].new_refresh \in 1..(next_id - 1)
            /\ client[c].new_refresh # client[c].secret
            /\ \A t \in RowsOf(client[c].secret) : t.revoked_at # NULL
            /\ get_active_token(hash_token(client[c].secret), now) = None

\* a refresh has succeeded, its presented row is still stored (revoked) and
\* the row of the new secret is active
C2_Witness ==
    \E c \in Clients :
        /\ Succeeded(c)
        /\ RowsOf(client[c].secret) # {}
        /\ \E t \in RowsOf(client[c].new_refresh) : IsActive(t, now)

\* C3: a refresh request that presents a secret whose row is already revoked
\* is answered Unauthorized, and every other row of that row's user that was
\* active is revoked by it.
C3_ReuseDetection ==
    [][\A c \in Clients, s \in Secrets :
        ( /\ client[c].pc = "idle"
          /\ client'[c].pc # "idle"
          /\ client'[c].secret = s
          /\ \E r \in RowsOf(s) : r.revoked_at # NULL )
        => /\ client'[c].pc = "done"
           /\ client'[c].status = 401
           /\ \A r \in RowsOf(s), t \in refresh_tokens :
                ( /\ t.user_id = r.user_id
                  /\ t.id # r.id
                  /\ IsActive(t, now) )
                => \E t2 \in refresh_tokens' :
                      t2.id = t.id /\ t2.revoked_at # NULL]_vars

\* a secret was rotated and then replayed: the replay got Unauthorized and the
\* secret issued by the rotation is revoked although nobody presented it and
\* nobody logged out; the other user's row is still active
C3_Witness ==
    /\ now = 0
    /\ ledger = {}
    /\ \E c, d \in Clients :
        /\ Unauthorized(c)
        /\ Succeeded(d)
        /\ client[c].secret = client[d].secret
        /\ \E r \in RowsOf(client[c].secret), t \in RowsOf(client[d].new_refresh) :
              /\ r.revoked_at # NULL
              /\ t.revoked_at # NULL
              /\ t.user_id = r.user_id
              /\ \E o \in refresh_tokens :
                    o.user_id # r.user_id /\ IsActive(o, now)

\* the instants of the clock
Instants == {i \in 0..MaxTime : i % ClockStep = 0}

\* C4: the active lookup returns a row exactly when a row with the given hash
\* exists, is not revoked and expires strictly after the given time; the row
\* it returns is such a row.
C4_ActiveLookup ==
    \A secret \in 0..MaxTokens, time \in Instants :
        LET h == hash_token(secret)
            found == get_active_token(h, time)
        IN /\ (found # None) <=>
                 \E t \in refresh_tokens :
                    /\ t.token_hash = h
                    /\ t.revoked_at = NULL
                    /\ time < t.expired_at
           /\ \A t \in found :
                 /\ t \in refresh_tokens
                 /\ t.token_hash = h
                 /\ t.revoked_at = NULL
                 /\ time < t.expired_at

\* the table holds a row the lookup returns at the current time, an unexpired
\* revoked row, and an unrevoked row that expires at this very instant
C4_Witness ==
    /\ \E t \in refresh_tokens : get_active_token(t.token_hash, now) = {t}
    /\ \E t \in refresh_tokens :
          /\ t.revoked_at # NULL
          /\ t.expired_at > now
          /\ get_active_token(t.token_hash, now) = None
    /\ \E t \in refresh_tokens :
          /\ t.revoked_at = NULL
          /\ t.expired_at = now
          /\ get_active_token(t.token_hash, now) = None

\* C5: a refresh request that presents a secret with no active row (unknown,
\* revoked or expired) is answered Unauthorized and issues nothing: no access
\* token, no refresh secret, no new row.
C5_NonActiveRefused ==
    [][\A c \in Clients, s \in Secrets :
        ( /\ client[c].pc = "idle"
          /\ client'[c].pc # "idle"
          /\ client'[c].secret = s
          /\ ~ \E t \in refresh_tokens :
                  /\ t.token_hash = hash_token(s)
                  /\ t.revoked_at = NULL
                  /\ t.expired_at > now )
        => /\ client'[c].pc = "done"
           /\ client'[c].status = 401
           /\ client'[c].new_refresh = NULL
           /\ next_id' = next_id
           /\ access_tokens' = access_tokens
           /\ {t.id : t \in refresh_tokens'} = {t.id : t \in refresh_tokens}]_vars

\* a request with a never-revoked but expired secret was refused, and so was
\* one with a secret that was never issued; only the login issued anything
C5_Witness ==
    /\ next_id = 2
    /\ \E c, d \in Clients :
        /\ Unauthorized(c)
        /\ \E t \in RowsOf(client[c].secret) :
              t.revoked_at = NULL /\ t.expired_at <= now
        /\ Unauthorized(d)
        /\ client[d].secret = 0

\* C6: revoke on a record that is already revoked is a no-op: it leaves the
\* row, revoked_at included, unchanged.
C6_RevokeIsNoOpWhenRevoked ==
    \A t \in refresh_tokens : t.revoked_at # NULL => revoke_token(t) = t

\* C7: a sweeper run deletes exactly the rows with expired_at < now or with
\* revoked_at set and revoked_at < now - 7 days and changes no other row; and
\* no step of the system, however the sweeper interleaves with login, refresh
\* and logout, makes an active row disappear.
C7_SweeperDeletesExactlyStale ==
    [][ /\ cleanup_expired_tokens =>
             /\ refresh_tokens' \subseteq refresh_tokens
             /\ refresh_tokens \ refresh_tokens' =
                  {t \in refresh_tokens :
                      \/ t.expired_at < now
                      \/ t.revoked_at # NULL /\ t.revoked_at < now - RetentionDays}
        /\ \A t \in refresh_tokens :
              (t.revoked_at = NULL /\ t.expired_at > now)
              => \E t2 \in refresh_tokens' : t2.id = t.id ]_vars

\* a run has just deleted an expired row and a row revoked more than 7 days
\* ago, and has left an active row in the table
C7_Witness ==
    /\ last_sweep.status = "ok"
    /\ \E t \in last_sweep.deleted : t.revoked_at = NULL /\ t.expired_at < now
    /\ \E t \in last_sweep.deleted :
          /\ t.revoked_at # NULL
          /\ t.revoked_at < now - RetentionDays
          /\ t.expired_at >= now
    /\ \E t \in refresh_tokens : IsActive(t, now)

\* C8 as stated: an unrevoked row whose expiry lies within the grace window
\* is still present after a sweeper run.
C8_ExpiredRowKeptWithinGrace ==
    [][cleanup_expired_tokens =>
          \A t \in refresh_tokens :
             ( /\ t.revoked_at = NULL
               /\ t.expired_at < now
               /\ t.expired_at >= now - RetentionDays )
             => t \in refresh_tokens']_vars

\* C8 amended: a sweeper run removes every row with expired_at < now, however
\* recent the expiry; an unrevoked row that has not passed its expiry
\* (expired_at >= now) is kept. The 7-day window applies to revoked_at only.
C8_ExpiredRowPurgedAtOnce ==
    [][cleanup_expired_tokens =>
          \A t \in refresh_tokens :
             /\ t.expired_at < now => t \notin refresh_tokens'
             /\ (t.revoked_at = NULL /\ t.expired_at >= now)
                => t \in refresh_tokens']_vars

\* a run has just deleted an unrevoked row that expired within the last
\* 7 days, and has kept an unrevoked row that expires at this very instant
C8_Witness ==
    /\ last_sweep.status = "ok"
    /\ \E t \in last_sweep.deleted :
          /\ t.revoked_at = NULL
          /\ t.expired_at < now
          /\ t.expired_at >= now - RetentionDays
          /\ t \notin refresh_tokens
    /\ \E t \in refresh_tokens : t.revoked_at = NULL /\ t.expired_at = now

C10_Logout ==
    [][\A a \in AccessStrings, s \in Secrets :
        ( /\ logout(a, s)
          /\ \E x \in access_tokens : x.jti = a /\ x.exp >= now )
        => /\ \E e \in ledger' : e.jti = a
           /\ {t.id : t \in refresh_tokens'} = {t.id : t \in refresh_tokens}
           /\ \A t \in refresh_tokens' :
                 IF t.token_hash = hash_token(s)
                 THEN t.revoked_at # NULL
                 ELSE t \in refresh_tokens
           /\ ( /\ \E e \in ledger : e.jti = a
                /\ \A t \in RowsOf(s) : t.revoked_at # NULL )
              => (ledger' = ledger /\ refresh_tokens' = refresh_tokens) ]_vars

\* two logouts have happened and no refresh request: the ledger holds the jti
\* of two issued access tokens, one row is revoked, and the other logout found
\* no row to revoke
C10_Witness ==
    /\ \E e, f \in ledger :
          /\ e.jti # f.jti
          /\ \E x \in access_tokens : x.jti = e.jti
          /\ \E x \in access_tokens : x.jti = f.jti
    /\ Cardinality({t \in refresh_tokens : t.revoked_at # NULL}) = 1
    /\ \A c \in Clients : client[c].pc = "idle"

\* C11: a logout makes the access token it presents fail validation and leaves
\* the validation of every other access token as it was; an issued token that
\* fails validation never validates again; and a token that is unexpired and whose
\* jti is not in the ledger validates as its user.
C11_AccessRevocation ==
    [][ /\ \A a \in AccessStrings, s \in Secrets :
              logout(a, s) =>
                 /\ (get_current_user(a))' = None
                 /\ \A b \in AccessStrings \ {a} :
                       (get_current_user(b))' = get_current_user(b)
        /\ \A a \in 1..(next_id - 1) :
              get_current_user(a) = None => (get_current_user(a))' = None
        /\ \A x \in access_tokens' :
              (x.exp >= now' /\ ~ \E e \in ledger' : e.jti = x.jti)
              => \E u \in get_current_user(x.jti)' : u.username = x.sub ]_vars

\* one user holds two unexpired access tokens; one was revoked by a logout and
\* fails validation, the other still validates
C11_Witness ==
    \E x, y \in access_tokens :
        /\ x.sub = y.sub
        /\ x.jti # y.jti
        /\ x.exp >= now /\ y.exp >= now
        /\ \E e \in ledger : e.jti = x.jti
        /\ get_current_user(x.jti) = None
        /\ get_current_user(y.jti) # None

\* C12: request_password_reset answers with the success message whatever the
\* email, that of a user or not.
C12_ResetRequestAlwaysOk ==
    [][\A e \in Emails :
          request_password_reset(e) =>
             /\ reply'.status = "ok"
             /\ reply'.message =
                   "Password reset instructions sent to your email"]_vars

\* C13: once reset_password has succeeded with a token, reset_password with
\* the same token fails with InvalidToken or Expired and leaves the stored
\* password as it is.
C13_ResetTokenSingleUse ==
    [][\A t \in ActionTokens, p \in Passwords :
          ( /\ reply.op = "reset_password"
            /\ reply.status = "ok"
            /\ reply.token = t
            /\ reset_password(t, p) )
          => /\ reply'.status \in {"InvalidToken", "Expired"}
             /\ users' = users]_vars

\* C14: a reset_password that succeeds with a mailed reset token stores the
\* hash of the new password for the token's user: afterwards every other
\* password (the old one included) is refused at login as Unauthorized, and
\* the new password is accepted (for a confirmed user the login succeeds).
C14_ResetReplacesPassword ==
    [][\A t \in outbox, p \in Passwords :
          ( /\ reset_password(t, p)
            /\ t.purpose = "reset"
            /\ t.exp >= now
            /\ \E u \in users : u.email = t.sub )
          => \A u \in users :
                u.email = t.sub =>
                   /\ reply'.status = "ok"
                   /\ \E v \in users' :
                         /\ v.id = u.id
                         /\ v.hash_password = hash_password(p)
                   /\ (authenticate_status(u.username, p))' =
                         IF u.confirmed THEN "ok" ELSE "Forbidden"
                   /\ \A old \in Passwords \ {p} :
                         (authenticate_status(u.username, old))'
                            = "Unauthorized" ]_vars

\* alice, registered with "Secret123", has just reset her password with a
\* mailed token: "Hunter22" logs her in and "Secret123" no longer does
C14_Witness ==
    /\ reply.op = "reset_password"
    /\ reply.status = "ok"
    /\ reply.token \in outbox
    /\ reply.token.sub = "alice@x.com"
    /\ authenticate_status("alice", "Hunter22") = "ok"
    /\ authenticate_status("alice", "Secret123") = "Unauthorized"

\* C15: confirm-email rejects a token issued with purpose reset and
\* reset-password rejects a token issued with purpose confirm (WrongPurpose
\* while the token is unexpired); neither request changes the users table.
C15_PurposeBound ==
    [][\A t \in outbox :
          /\ (t.purpose = "reset" /\ confirmed_email(t)) =>
                /\ reply'.status # "ok"
                /\ t.exp >= now => reply'.status = "WrongPurpose"
                /\ users' = users
          /\ \A p \in Passwords :
                (t.purpose = "confirm" /\ reset_password(t, p)) =>
                   /\ reply'.status # "ok"
                   /\ t.exp >= now => reply'.status = "WrongPurpose"
                   /\ users' = users ]_vars

\* the unexpired confirmation token mailed to an unconfirmed user was given to
\* reset-password and refused; a reset token is in the outbox as well
C15_Witness ==
    /\ reply.op = "reset_password"
    /\ reply.status = "WrongPurpose"
    /\ reply.token \in outbox
    /\ reply.token.purpose = "confirm"
    /\ reply.token.exp >= now
    /\ \E u \in users : u.email = reply.token.sub /\ ~ u.confirmed
    /\ \E t \in outbox : t.purpose = "reset"

\* C16: a register request whose username or email is taken fails with
\* Conflict and leaves the users table unchanged; one that succeeds adds
\* exactly one user, with that username and email and confirmed = false; and
\* whatever the interleaving of register requests, no two users share a
\* username or an email.
C16_Register ==
    [][ /\ \A r \in Registrants, u \in Usernames, e \in Emails,
              p \in Passwords :
              register_check(r, u, e, p) =>
                 /\ users' = users
                 /\ (\E x \in users : x.username = u \/ x.email = e)
                    => reply'.status = "Conflict"
        /\ \A r \in Registrants :
              register_create(r) =>
                 IF \E x \in users :
                       \/ x.username = registration[r].username
                       \/ x.email = registration[r].email
                 THEN reply'.status = "Conflict" /\ users' = users
                 ELSE /\ reply'.status = "ok"
                      /\ users \subseteq users'
                      /\ \E v \in users' :
                            /\ users' \ users = {v}
                            /\ v.username = registration[r].username
                            /\ v.email = registration[r].email
        /\ \A v \in users' : (\A x \in users : x.id # v.id) => ~ v.confirmed
        /\ \A v, w \in users' :
              v # w => /\ v.username # w.username
                       /\ v.email # w.email ]_vars

\* two register requests for the same username passed their lookups together;
\* the first has created the user, unconfirmed, and the second is about to
\* insert
C16_Witness ==
    /\ reply.op = "register"
    /\ reply.status = "ok"
    /\ \E r \in Registrants :
          /\ registration[r].pc = "checked"
          /\ \E u \in users :
                /\ u.username = registration[r].username
                /\ ~ u.confirmed

\* C17: a login with an unknown username or a password that does not verify
\* is answered Unauthorized and creates no refresh row and no access token; a
\* login with the credentials of a (confirmed) user issues one access token
\* for that user and adds exactly one refresh row, owned by that user.
C17_Login ==
    /\ [](\A u \in Usernames, p \in Passwords :
            (~ \E x \in users :
                  x.username = u /\ x.hash_password = hash_password(p))
            => /\ authenticate_status(u, p) = "Unauthorized"
               /\ authenticate(u, p) = None)
    /\ [][\A u \in Usernames, p \in Passwords :
            login(u, p) =>
               IF authenticate_status(u, p) # "ok"
               THEN /\ refresh_tokens' = refresh_tokens
                    /\ access_tokens' = access_tokens
               ELSE /\ refresh_tokens \subseteq refresh_tokens'
                    /\ \E t \in refresh_tokens' :
                          /\ refresh_tokens' \ refresh_tokens = {t}
                          /\ t.revoked_at = NULL
                          /\ \E x \in users :
                                x.username = u /\ x.id = t.user_id
                    /\ \E a \in access_tokens' :
                          /\ access_tokens' \ access_tokens = {a}
                          /\ a.sub = u ]_vars

\* alice has logged in once and nothing else was issued: one access token and
\* one active refresh row, hers; logins as bob or with another password are
\* Unauthorized
C17_Witness ==
    /\ next_id = 2
    /\ \E t \in refresh_tokens :
          /\ refresh_tokens = {t}
          /\ t.user_id = 1
          /\ IsActive(t, now)
    /\ \E a \in access_tokens : access_tokens = {a} /\ a.sub = "alice"
    /\ authenticate_status("bob", "Hunter22") = "Unauthorized"
    /\ authenticate_status("alice", "Hunter22") = "Unauthorized"

C19_ConfirmIdempotent ==
    [][\A t \in outbox :
          ( /\ confirmed_email(t)
            /\ t.purpose = "confirm"
            /\ t.exp >= now )
          => IF \E u \in users : u.email = t.sub
             THEN /\ reply'.status = "ok"
                  /\ users' = {IF u.email = t.sub
                               THEN [u EXCEPT !.confirmed = TRUE]
                               ELSE u : u \in users}
                  /\ (\E u \in users : u.email = t.sub /\ u.confirmed)
                     => /\ users' = users
                        /\ reply'.message = "Your email already confirmed"
             ELSE /\ reply'.status # "ok"
                  /\ users' = users ]_vars

\* a user was confirmed with the mailed token and the same token was then
\* presented again: the answer is "already confirmed" and he is confirmed
C19_Witness ==
    /\ reply.op = "confirmed_email"
    /\ reply.status = "ok"
    /\ reply.message = "Your email already confirmed"
    /\ reply.token \in outbox
    /\ reply.token.purpose = "confirm"
    /\ \E u \in users : u.email = reply.token.sub /\ u.confirmed

\* C20: request_email for an email that matches no user completes without
\* error: it answers with the generic message and schedules no mail.
C20_RequestEmailUnknown ==
    [][\A e \in Emails :
          ( /\ request_email(e)
            /\ ~ \E u \in users : u.email = e )
          => /\ reply'.status = "ok"
             /\ reply'.message = "Check your email"
             /\ outbox' = outbox ]_vars


\* ------------------------------------------------------------------- C22
\* the raw refresh secrets handed out so far
Issued == 1..(next_id - 1)

\* C22: only the hash of a refresh secret is persisted.  In every reachable
\* state the token_hash of every refresh_tokens row is the digest of an
\* issued secret and is no issued raw secret; a lookup by hash returns only
\* a row whose stored token_hash equals the hash looked up, so a lookup by
\* the raw secret finds nothing.
C22_OnlyHashPersisted ==
    /\ \A t \in refresh_tokens :
          /\ t.token_hash \notin Issued
          /\ \E s \in Issued : t.token_hash = hash_token(s)
    /\ \A s \in Issued :
          /\ \A t \in get_by_token_hash(hash_token(s)) :
                t.token_hash = hash_token(s)
          /\ \A t \in get_active_token(hash_token(s), now) :
                t.token_hash = hash_token(s)
          /\ get_by_token_hash(s) = None
          /\ get_active_token(s, now) = None

\* a refresh response handed a raw secret to the client, its row is stored
\* under the digest, and a login row is stored too
C22_Witness ==
    \E c \in Clients :
        /\ client[c].pc = "done" /\ client[c].status = 200
        /\ get_by_token_hash(hash_token(client[c].new_refresh)) # None
        /\ get_by_token_hash(client[c].new_refresh) = None
        /\ Cardinality(refresh_tokens) >= 2


\* ------------------------------------------------------------------- C23
\* C23: an existing refresh row is mutated only by setting revoked_at.  In
\* every step (login, refresh, logout, sweeper) a row that is still in the
\* table afterwards keeps its user_id, token_hash, created_at and expired_at;
\* ids stay unique, and a row that was not there before is a freshly
\* created one (it carries the next id and is unrevoked).
C23_RowFrame ==
    [][ /\ \A t \in refresh_tokens : \A n \in refresh_tokens' :
              n.id = t.id =>
                  /\ n.user_id = t.user_id
                  /\ n.token_hash = t.token_hash
                  /\ n.created_at = t.created_at
                  /\ n.expired_at = t.expired_at
        /\ \A a, b \in refresh_tokens' : a.id = b.id => a = b
        /\ \A n \in refresh_tokens' :
              (\A t \in refresh_tokens : t.id # n.id) =>
                  n.id = next_id /\ n.revoked_at = NULL /\ n.created_at = now
      ]_vars

\* a sweep has deleted rows while a row revoked after its creation is kept
C23_Witness ==
    /\ last_sweep.status = "ok" /\ last_sweep.deleted # {}
    /\ \E t \in refresh_tokens :
          t.revoked_at # NULL /\ t.revoked_at > t.created_at


\* ------------------------------------------------------------------- C24
\* C24: revocation and expiry are permanent.  In every step, an issued
\* refresh secret for which get_active_token finds no row before the step
\* (its row is revoked, expired or purged) has none after the step either,
\* and a row whose revoked_at is set and that stays in the table still has
\* revoked_at set.
C24_Permanent ==
    [][ /\ \A s \in Issued :
              get_active_token(hash_token(s), now) = None =>
                  (get_active_token(hash_token(s), now))' = None
        /\ \A t \in refresh_tokens : \A n \in refresh_tokens' :
              n.id = t.id /\ t.revoked_at # NULL => n.revoked_at # NULL
      ]_vars

\* three issued secrets fail the lookup, one for each reason: its row is
\* revoked, its row is purged, its row is expired but neither revoked nor
\* purged
C24_Witness ==
    \E r, p, e \in Issued :
        /\ \E t \in get_by_token_hash(hash_token(r)) : t.revoked_at # NULL
        /\ get_by_token_hash(hash_token(p)) = None
        /\ \E t \in get_by_token_hash(hash_token(e)) :
              t.revoked_at = NULL /\ t.expired_at <= now


\* ------------------------------------------------------------------- C29
\* the active refresh rows of a user
ActiveRows(user_id) ==
    {t \in refresh_tokens : t.user_id = user_id /\ IsActive(t, now)}

\* C29: in the refresh handler the replacement row is created before the
\* presented row is revoked.  The step that creates the replacement adds
\* exactly that row to the user's active rows and revokes nothing, so a
\* presented row that is active before the step is active after it together
\* with the new one: a handler that stops there leaves both secrets active.
\* The final step removes the presented row alone from the active rows, so
\* when nothing interleaves the number of active rows after the call is the
\* number before it.
C29_CreateThenRevoke ==
    [][ \A c \in Clients : \A uid \in {client[c].user_id} :
          LET presented == get_active_token(hash_token(client[c].secret), now)
          IN  /\ client[c].pc = "validated" /\ client'[c].pc = "issued" =>
                    LET created == (get_active_token(
                                       hash_token(client[c].new_refresh),
                                       now))'
                    IN  /\ created # None
                        /\ created \cap refresh_tokens = {}
                        /\ ActiveRows(uid)' = ActiveRows(uid) \cup created
                        /\ presented \subseteq ActiveRows(uid)'
                        /\ Cardinality(ActiveRows(uid)') =
                               Cardinality(ActiveRows(uid)) + 1
              /\ client[c].pc = "issued" /\ client'[c].pc = "done" =>
                    /\ ActiveRows(uid)' = ActiveRows(uid) \ presented
                    /\ Cardinality(ActiveRows(uid)') =
                           Cardinality(ActiveRows(uid))
                               - Cardinality(presented)
                    /\ (get_active_token(hash_token(client[c].secret),
                                         now))' = None
      ]_vars

\* a handler between its two writes: the presented secret and the new
\* secret are both active
C29_Witness ==
    \E c \in Clients :
        /\ client[c].pc = "issued"
        /\ get_active_token(hash_token(client[c].secret), now) # None
        /\ get_active_token(hash_token(client[c].new_refresh), now) # None
        /\ Cardinality(ActiveRows(client[c].user_id)) = 2


\* ------------------------------------------------------------------- C28
\* C28: login adds one refresh row and leaves every existing row unchanged,
\* so every secret that was active stays active; a step that changes a
\* user's hash_password (a successful reset_password) changes nothing else
\* of that user, no other user, no refresh row, no access token and no
\* ledger entry, so every secret passes or fails the lookup as before.
C28_SessionsSurvive ==
    [][ /\ refresh_tokens' # refresh_tokens =>
              /\ refresh_tokens \subseteq refresh_tokens'
              /\ Cardinality(refresh_tokens') =
                     Cardinality(refresh_tokens) + 1
              /\ users' = users
              /\ \A s \in Issued :
                    get_active_token(hash_token(s), now) \subseteq
                        (get_active_token(hash_token(s), now))'
        /\ \A u \in users : \A n \in users' :
              n.id = u.id /\ n.hash_password # u.hash_password =>
                  /\ n = [u EXCEPT !.hash_password = n.hash_password]
                  /\ users' \ {n} = users \ {u}
                  /\ refresh_tokens' = refresh_tokens
                  /\ access_tokens' = access_tokens
                  /\ ledger' = ledger
                  /\ \A s \in Issued :
                        (get_active_token(hash_token(s), now))' =
                            get_active_token(hash_token(s), now)
      ]_vars

\* the latest request was a successful reset with a token mailed at this
\* instant, the user's password is no longer the one of her logins, and two
\* refresh rows of hers, created at an earlier instant, are still active
C28_Witness ==
    /\ reply.op = "reset_password" /\ reply.status = "ok"
    /\ reply.token.exp = now + ACTION_TOKEN_EXPIRE
    /\ \E u \in get_user_by_email(reply.token.sub) :
          /\ u.hash_password = hash_password("Hunter22")
          /\ \E a, b \in ActiveRows(u.id) :
                a.id # b.id /\ a.created_at < now /\ b.created_at < now


\* ------------------------------------------------------------------- C27
\* C27: the email-confirmed flag is monotone.  In every step (register,
\* confirmation, request_email, password reset, avatar update) every user
\* row stays in the table under its id, and a row whose confirmed flag is
\* true before the step has it true after the step.
C27_ConfirmedMonotone ==
    [][ \A u \in users :
          /\ \E n \in users' : n.id = u.id
          /\ \A n \in users' : n.id = u.id /\ u.confirmed => n.confirmed
      ]_vars

\* a user who registered and confirmed has since reset the password and
\* uploaded an avatar, and is still confirmed
C27_Witness ==
    /\ reply.op = "reset_password" /\ reply.status = "ok"
    /\ \E u \in get_user_by_email(reply.token.sub) :
          u.username = "bob" /\ u.confirmed /\ u.avatar = "cloudinary"


\* ------------------------------------------------------------------- C25
\* the contacts of a user
OwnedBy(user) == {c \in contacts : c.user_id = user.id}

\* C25: contact operations are isolated per owner.  In every state, for
\* every user U, get_contacts and get_contact_by_id return only contacts
\* whose user_id is U's id, and the id of a contact of another user resolves
\* to None.  In every contact request made by U, every contact of another
\* user is left in the table unchanged, every row that is added, changed or
\* deleted is U's, and a get, update or remove that names a contact of
\* another user is answered None.
C25_OwnerIsolation ==
    /\ [](\A u \in users :
            /\ \A first_name, email \in Patterns :
                  get_contacts({u}, first_name, email) \subseteq OwnedBy(u)
            /\ \A i \in ContactIds : get_contact_by_id(i, u) \subseteq OwnedBy(u)
            /\ \A c \in contacts :
                  c.user_id # u.id => get_contact_by_id(c.id, u) = None)
    /\ [][ answer' # answer \/ contacts' # contacts =>
             /\ \A c \in contacts :
                   c.user_id # answer'.user_id => c \in contacts'
             /\ \A c \in contacts \ contacts' : c.user_id = answer'.user_id
             /\ \A n \in contacts' \ contacts : n.user_id = answer'.user_id
             /\ \A c \in contacts :
                   /\ c.id = answer'.contact_id
                   /\ c.user_id # answer'.user_id
                   /\ answer'.op \in {"get_contact", "update_contact",
                                      "remove_contact"}
                   => answer'.status = "None"
         ]_vars

\* an update or a removal that named a contact of another user was answered
\* None, and that contact is in the table
C25_Witness ==
    /\ answer.op \in {"update_contact", "remove_contact"}
    /\ answer.status = "None"
    /\ \E c \in contacts :
          c.id = answer.contact_id /\ c.user_id # answer.user_id


\* ------------------------------------------------------------------- C26
\* the step is a contact request `op`; Requested(op, P) says that P(i, u)
\* holds of its contact id i and its caller u
Requested(op, P(_, _)) ==
    /\ answer'.op = op
    /\ answer' # answer \/ contacts' # contacts
    => \A u \in {v \in users : v.id = answer'.user_id} :
          P(answer'.contact_id, u)

\* an update or a removal that finds no contact of the user returns None
\* and writes nothing
NoWriteWhenMissing ==
    LET Missing(i, u) ==
            get_contact_by_id(i, u) = None =>
                answer'.status = "None" /\ contacts' = contacts
    IN  /\ Requested("update_contact", Missing)
        /\ Requested("remove_contact", Missing)

\* C26 as stated: a successful update_contact changes exactly the fields set
\* in the body and leaves every other field of the contact unchanged, every
\* other row too; an update or a removal of a contact that does not exist
\* for the user returns None and writes nothing.
C26_UpdateFrame ==
    [][ /\ NoWriteWhenMissing
        /\ LET Frame(i, u) ==
                  \A b \in ContactUpdateSchema :
                     answer'.status = "ok" /\ update_contact(i, b, u) =>
                        \A c \in get_contact_by_id(i, u) :
                           \E n \in contacts' :
                              /\ contacts' \ {n} = contacts \ {c}
                              /\ \A column \in DOMAIN c :
                                    n[column] = IF column \in DOMAIN b
                                                THEN b[column]
                                                ELSE c[column]
           IN  Requested("update_contact", Frame)
      ]_vars

\* C26, amended: a successful update_contact gives the fields set in the
\* body the values of the body and leaves every other field unchanged but
\* updated_at, which takes the time of the update when the update changed a
\* value and is unchanged otherwise; every other row is unchanged.  An update
\* or a removal of a contact that does not exist for the user returns None
\* and writes nothing.
C26_UpdateFrameButTimestamp ==
    [][ /\ NoWriteWhenMissing
        /\ LET Frame(i, u) ==
                  \A b \in ContactUpdateSchema :
                     answer'.status = "ok" /\ update_contact(i, b, u) =>
                        \A c \in get_contact_by_id(i, u) :
                           \E n \in contacts' :
                              /\ contacts' \ {n} = contacts \ {c}
                              /\ \A column \in DOMAIN c \ {"updated_at"} :
                                    n[column] = IF column \in DOMAIN b
                                                THEN b[column]
                                                ELSE c[column]
                              /\ n.updated_at =
                                    IF \E column \in DOMAIN b :
                                          b[column] # c[column]
                                    THEN now ELSE c.updated_at
           IN  Requested("update_contact", Frame)
      ]_vars

\* the latest request was a successful update of a contact created at an
\* earlier instant: the row carries the time of the update, and a second
\* row, of the other user, is in the table
C26_Witness ==
    /\ answer.op = "update_contact" /\ answer.status = "ok"
    /\ \E c, d \in contacts :
          /\ c.id = answer.contact_id
          /\ c.updated_at = now /\ now > 0
          /\ c.first_name = "Jo" /\ c.email = "ann@x.com"
          /\ d.user_id # c.user_id


\* ------------------------------------------------------------------- C21
\* the user's contacts whose birthday (month and day) is today or one of
\* the UpcomingDays days after it, whatever month or year those days are in
BirthdaysWithinWindow(user) ==
    {c \in OwnedBy(user) :
        \E k \in 0..UpcomingDays : c.birth_date = add_days(today, k)}

\* C21: get_contacts_by_upcoming_birthdays returns exactly the user's
\* contacts whose birthday falls within the window that starts today, also
\* when the window crosses a month or year boundary.
C21_UpcomingBirthdays ==
    \A u \in users :
        get_contacts_by_upcoming_birthdays(u) = BirthdaysWithinWindow(u)

====
